---------------------------- MODULE Spec2Model ----------------------------
(***************************************************************************)
(* Model of the WebPaper text pipeline:                                    *)
(*   - integrated_filter/extractor.py : JSONStreamParser and process_file  *)
(*   - cleaning.py                    : AcademicContentFilter._filter_text *)
(*   - deduplication.py               : deduplicate_texts (MinHash + LSH)  *)
(*                                                                         *)
(* A Python string is a sequence of symbols.  Most symbols are one         *)
(* character; "text", "null", "U2019" (the escape backslash-u-2019), "LDQ" *)
(* and "RDQ" (the curly double quotes) stand for one lexical unit each.    *)
(***************************************************************************)
EXTENDS Integers, Sequences, FiniteSets, TLC

VARIABLES
    \* ---- process_file / JSONStreamParser (extractor.py)
    file,          \* the lines of the input file
    pos,           \* index of the next line the for-loop reads
    pc,            \* "reading" | "done" | "aborted" | "off"
    buffer,        \* JSONStreamParser.buffer
    in_object,     \* JSONStreamParser.in_object
    object_count,  \* JSONStreamParser.object_count
    entry_count,   \* JSONStreamParser.entry_count
    error_count,   \* JSONStreamParser.error_count
    result,        \* what the last feed call returned
    returned,      \* number of feed calls that returned something other than None
    extracted,     \* process_file's list of extracted texts
    reported,      \* the two numbers of the final print, <<>> before it
    \* ---- AcademicContentFilter._filter_text (cleaning.py)
    config,        \* self.config (the keys _filter_text reads)
    ftext,         \* the text _filter_text is called on
    fpc,           \* "call" | "done" | "off"
    verdict,       \* what _filter_text returned (True = drop the text)
    evaluated,     \* the heuristics _filter_text evaluated, in order
    raised,        \* an exception reached the except clause of _filter_text
    \* ---- deduplicate_texts (deduplication.py)
    texts,         \* the argument: a sequence of texts
    di,            \* the i of enumerate(texts): number of texts processed
    dpc,           \* "loop" | "done" | "off"
    hashtables,    \* MinHashLSH: per band, the set of <<band value, key>> stored
    keys,          \* MinHashLSH: the keys inserted (the i of "text_{i}")
    unique,        \* the list that is returned
    \* ---- AcademicContentFilter.stream_process / parallel_filter (cleaning.py)
    lines,         \* the input file: per line the parsed value, or a line that is not JSON
    batch_size,    \* the batch_size argument
    sline,         \* number of lines the for-loop has read
    sbuffer,       \* stream_process's buffer: the records of the current batch
    futures,       \* executor.map: per record of the batch "queued", "running" or its result
    order,         \* the positions in the batch in the order the workers finished them
    fout,          \* the records written to the output file
    spc            \* "read" | "filter" | "done" | "off"

parserVars == <<file, pos, pc, buffer, in_object, object_count, entry_count,
                error_count, result, returned, extracted, reported>>

filterVars == <<config, ftext, fpc, verdict, evaluated, raised>>

dedupVars == <<texts, di, dpc, hashtables, keys, unique>>

streamVars == <<lines, batch_size, sline, sbuffer, futures, order, fout, spc>>

vars == <<parserVars, filterVars, dedupVars, streamVars>>

-----------------------------------------------------------------------------
(* Bounds *)

MaxLines == 3
MaxTextLen == 4
MaxTexts == 3
MaxTokens == 2
NumPerm == 4
Rows == 2
MaxStreamLines == 3
MaxBatchSize == 3
ParallelWorkers == 2

-----------------------------------------------------------------------------
(* Symbols *)

LB == "{"
RB == "}"
DQ == "\""
SQ == "'"
SP == " "
Digits == {"5"}

Range(s) == {s[k] : k \in DOMAIN s}

-----------------------------------------------------------------------------
(* str.strip(), str.count(), the record-start pattern *)

RECURSIVE LStrip(_)
LStrip(s) == IF s # <<>> /\ Head(s) = SP THEN LStrip(Tail(s)) ELSE s

RECURSIVE RStrip(_)
RStrip(s) ==
    IF s # <<>> /\ s[Len(s)] = SP THEN RStrip(SubSeq(s, 1, Len(s) - 1)) ELSE s

Strip(s) == RStrip(LStrip(s))

Count(s, c) == Cardinality({k \in DOMAIN s : s[k] = c})

\* first index >= i whose symbol is not in the class cls (Len(s)+1 if none)
RECURSIVE SkipClass(_, _, _)
SkipClass(s, i, cls) ==
    IF i <= Len(s) /\ s[i] \in cls THEN SkipClass(s, i + 1, cls) ELSE i

\* re.match(r'^\s*\{[\s"]*text["\']?\s*:', line)
IsRecordStart(line) ==
    LET i0 == SkipClass(line, 1, {SP})
        i1 == SkipClass(line, i0 + 1, {SP, DQ})
        i2 == IF i1 + 1 <= Len(line) /\ line[i1 + 1] \in {DQ, SQ}
              THEN i1 + 2 ELSE i1 + 1
        i3 == SkipClass(line, i2, {SP})
    IN  /\ i0 <= Len(line) /\ line[i0] = LB
        /\ i1 <= Len(line) /\ line[i1] = "text"
        /\ i3 <= Len(line) /\ line[i3] = ":"

-----------------------------------------------------------------------------
(* _parse_buffer: repair *)

\* the four chained str.replace calls, applied to one symbol
ReplaceSym(c) ==
    IF c \in {"LDQ", "RDQ", SQ} THEN DQ
    ELSE IF c = "U2019" THEN SQ
    ELSE c

Sanitize(s) == [k \in DOMAIN s |-> ReplaceSym(s[k])]

\* index of the comma of a match of ,\s*}$ in s, 0 if the pattern does not match
RECURSIVE CommaBefore(_, _)
CommaBefore(s, i) ==
    IF i < 1 THEN 0
    ELSE IF s[i] = SP THEN CommaBefore(s, i - 1)
    ELSE IF s[i] = "," THEN i
    ELSE 0

TrailingComma(s) ==
    IF s # <<>> /\ s[Len(s)] = RB THEN CommaBefore(s, Len(s) - 1) ELSE 0

\* if re.search(r',\s*}$', s): s = re.sub(r',\s*}$', '}', s)
CollapseTrailingComma(s) ==
    IF TrailingComma(s) > 0
    THEN SubSeq(s, 1, TrailingComma(s) - 1) \o <<RB>>
    ELSE s

Repair(s) == CollapseTrailingComma(Sanitize(s))

-----------------------------------------------------------------------------
(* json.loads on a sequence of symbols (the part of the JSON grammar the   *)
(* symbols can spell: objects, strings, integers, null, whitespace)        *)

StrV(s) == [t |-> "str", v |-> s]
NumV(s) == [t |-> "num", v |-> s]
NullV   == [t |-> "null", v |-> <<>>]
ObjV    == [t |-> "obj", v |-> <<>>]
NoneV   == [t |-> "None", v |-> <<>>]

At(s, i) == IF i \in DOMAIN s THEN s[i] ELSE "EOF"

Bad == [ok |-> FALSE, next |-> 0, val |-> NoneV, first |-> NoneV, text |-> NoneV]

\* index of the quote that closes the string opened just before i, 0 if none
RECURSIVE ClosingQuote(_, _)
ClosingQuote(s, i) ==
    IF i > Len(s) THEN 0
    ELSE IF s[i] = DQ THEN i
    ELSE ClosingQuote(s, i + 1)

\* scanstring: s[i] is the opening quote
ScanString(s, i) ==
    LET j == ClosingQuote(s, i + 1)
    IN  IF j = 0 THEN Bad
        ELSE [Bad EXCEPT !.ok = TRUE, !.next = j + 1,
                         !.val = StrV(SubSeq(s, i + 1, j - 1))]

RECURSIVE ScanOnce(_, _), JSONObject(_, _), Members(_, _, _, _)

\* scan_once: the value that starts at i
ScanOnce(s, i) ==
    LET c == At(s, i)
    IN  IF c = DQ THEN ScanString(s, i)
        ELSE IF c = LB THEN
            LET o == JSONObject(s, i + 1)
            IN  IF o.ok THEN [o EXCEPT !.val = ObjV] ELSE Bad
        ELSE IF c = "null" THEN [Bad EXCEPT !.ok = TRUE, !.next = i + 1, !.val = NullV]
        ELSE IF c \in Digits THEN
            LET j == SkipClass(s, i, Digits)
            IN  [Bad EXCEPT !.ok = TRUE, !.next = j, !.val = NumV(SubSeq(s, i, j - 1))]
        ELSE Bad

\* JSONObject: i is just after the opening brace
JSONObject(s, i) ==
    LET j == SkipClass(s, i, {SP})
    IN  IF At(s, j) = RB
        THEN [Bad EXCEPT !.ok = TRUE, !.next = j + 1, !.text = StrV(<<>>)]
        ELSE IF At(s, j) # DQ THEN Bad
        ELSE Members(s, j, NoneV, StrV(<<>>))

\* the while-loop of JSONObject: s[i] is the opening quote of a key; first is
\* the first key read so far, text is data.get('text', '') of the pairs so far
Members(s, i, first, text) ==
    LET k  == ScanString(s, i)
        c  == SkipClass(s, k.next, {SP})
        v  == ScanOnce(s, SkipClass(s, c + 1, {SP}))
        e  == SkipClass(s, v.next, {SP})
        f1 == IF first = NoneV THEN k.val ELSE first
        t1 == IF k.val = StrV(<<"text">>)
              THEN (IF v.val = NullV THEN NoneV ELSE v.val)
              ELSE text
        n  == SkipClass(s, e + 1, {SP})
    IN  IF ~k.ok THEN Bad
        ELSE IF At(s, c) # ":" THEN Bad
        ELSE IF ~v.ok THEN Bad
        ELSE IF At(s, e) = RB
            THEN [Bad EXCEPT !.ok = TRUE, !.next = e + 1, !.first = f1, !.text = t1]
        ELSE IF At(s, e) # "," THEN Bad
        ELSE IF At(s, n) # DQ THEN Bad
        ELSE Members(s, n, f1, t1)

\* data = json.loads(s); return data.get('text', '')
\* ok is FALSE when either line raises
Loads(s) ==
    LET i == SkipClass(s, 1, {SP})
        r == ScanOnce(s, i)
    IN  IF ~r.ok THEN Bad
        ELSE IF SkipClass(s, r.next, {SP}) # Len(s) + 1 THEN Bad   \* Extra data
        ELSE IF r.val # ObjV THEN Bad            \* no .get on str, int, None
        ELSE r

-----------------------------------------------------------------------------
(* JSONStreamParser *)

\* __init__
NewParser ==
    [buffer |-> <<>>, in_object |-> FALSE, object_count |-> 0,
     entry_count |-> 0, error_count |-> 0]

\* _parse_buffer without the count of the failure in the except branch
ParseBufferUncounted(p) ==
    LET counted == [p EXCEPT !.entry_count = @ + 1]
        data    == Loads(Repair(p.buffer))
    IN  IF data.ok
        THEN [p |-> counted, ret |-> data.text]
        ELSE [p |-> counted, ret |-> NoneV]

\* _parse_buffer on parser p: the new parser and the value returned
ParseBuffer(p) ==
    LET counted == [p EXCEPT !.entry_count = @ + 1]
        data    == Loads(Repair(p.buffer))
    IN  IF data.ok
        THEN [p |-> counted, ret |-> data.text]
        ELSE [p |-> [counted EXCEPT !.error_count = @ + 1], ret |-> NoneV]

\* lines 21-29 of feed on the stripped, non-empty line: the reset on a record
\* start, then the append and the brace count while in_object
Accumulate(p, line) ==
    LET started == IF IsRecordStart(line)
                   THEN [p EXCEPT !.in_object = TRUE, !.object_count = 0,
                                  !.buffer = <<>>]
                   ELSE p
    IN  IF started.in_object
        THEN [started EXCEPT
                 !.buffer = @ \o line,
                 !.object_count = @ + Count(line, LB) - Count(line, RB)]
        ELSE started

\* the feed call reaches _parse_buffer
ReachesParse(p, raw) ==
    /\ Strip(raw) # <<>>
    /\ Accumulate(p, Strip(raw)).in_object
    /\ Accumulate(p, Strip(raw)).object_count = 0

\* feed(line) on parser p: the new parser and the value returned
Feed(p, raw) ==
    IF Strip(raw) = <<>> THEN [p |-> p, ret |-> NoneV]
    ELSE IF ReachesParse(p, raw)
        THEN ParseBuffer([Accumulate(p, Strip(raw)) EXCEPT !.in_object = FALSE])
    ELSE [p |-> Accumulate(p, Strip(raw)), ret |-> NoneV]

-----------------------------------------------------------------------------
(* The input lines process_file is run on *)

Key     == <<DQ, "text", DQ, ":">>
Open    == <<LB>> \o Key
StrA    == <<DQ, "a", DQ>>

LineGood      == Open \o StrA \o <<RB>>                       \* {"text":"a"}
LinePadded    == <<SP>> \o Open \o <<SP, DQ, SP, "a", DQ, SP, RB, SP>>
LineApos      == Open \o <<DQ, "a", SQ, "a", DQ, RB>>         \* {"text":"a'a"}
LineCurly     == Open \o <<"LDQ", "a", "RDQ", RB>>            \* curly quotes round the value
LineEscape    == Open \o <<DQ, "a", "U2019", "a", DQ, RB>>    \* {"text":"a(escape)a"}
LineTrailing  == Open \o StrA \o <<",", RB>>                  \* {"text":"a",}
LineAposComma == Open \o <<DQ, "a", SQ, "a", DQ, ",", RB>>   \* {"text":"a'a",}
LineTwoCommas == Open \o StrA \o <<",", ",", RB>>             \* {"text":"a",,}
LineNumber    == Open \o <<"5", RB>>                          \* {"text":5}
LineNull      == Open \o <<"null", RB>>                       \* {"text":null}
LineBraceIn   == Open \o <<DQ, LB, DQ, RB>>                   \* {"text":"{"}
LineOpenOnly  == Open \o StrA                                 \* {"text":"a"
LineOpenComma == Open \o StrA \o <<",">>                      \* {"text":"a",
LineMore      == <<DQ, "b", DQ, ":">> \o StrA \o <<RB>>       \* "b":"a"}
LineClose     == <<RB>>                                       \* }
LineBlank     == <<SP>>

Lines ==
    {LineGood, LinePadded, LineApos, LineCurly, LineEscape, LineTrailing,
     LineAposComma, LineTwoCommas, LineNumber, LineNull, LineBraceIn, LineOpenOnly,
     LineOpenComma, LineMore, LineClose, LineBlank}

RECURSIVE SeqsUpTo(_, _)
SeqsUpTo(S, n) ==
    IF n = 0 THEN {<<>>}
    ELSE LET shorter == SeqsUpTo(S, n - 1)
         IN  shorter \cup {Append(q, x) : q \in shorter, x \in S}

Files == SeqsUpTo(Lines, MaxLines)

-----------------------------------------------------------------------------
(* process_file *)

Parser ==
    [buffer |-> buffer, in_object |-> in_object, object_count |-> object_count,
     entry_count |-> entry_count, error_count |-> error_count]

SetParser(p) ==
    /\ buffer' = p.buffer
    /\ in_object' = p.in_object
    /\ object_count' = p.object_count
    /\ entry_count' = p.entry_count
    /\ error_count' = p.error_count

FilterOff ==
    /\ config = <<>>
    /\ ftext = <<>>
    /\ fpc = "off"
    /\ verdict = FALSE
    /\ evaluated = <<>>
    /\ raised = FALSE

DedupOff ==
    /\ texts = <<>>
    /\ di = 0
    /\ dpc = "off"
    /\ hashtables = <<>>
    /\ keys = {}
    /\ unique = <<>>

StreamOff ==
    /\ lines = <<>>
    /\ batch_size = 0
    /\ sline = 0
    /\ sbuffer = <<>>
    /\ futures = <<>>
    /\ order = <<>>
    /\ fout = <<>>
    /\ spc = "off"

InitParser ==
    /\ file \in Files
    /\ pos = 1
    /\ pc = "reading"
    /\ buffer = NewParser.buffer
    /\ in_object = NewParser.in_object
    /\ object_count = NewParser.object_count
    /\ entry_count = NewParser.entry_count
    /\ error_count = NewParser.error_count
    /\ result = NoneV
    /\ returned = 0
    /\ extracted = <<>>
    /\ reported = <<>>

\* one iteration of "for line in f": feed the line, keep a non-blank text.
\* result.strip() raises AttributeError when result is not a str; nothing
\* catches it, so the run ends there.
ReadLine ==
    /\ pc = "reading"
    /\ pos <= Len(file)
    /\ LET r == Feed(Parser, file[pos])
       IN  /\ SetParser(r.p)
           /\ result' = r.ret
           /\ returned' = IF r.ret = NoneV THEN returned ELSE returned + 1
           /\ pos' = pos + 1
           /\ IF r.ret = NoneV
              THEN pc' = pc /\ extracted' = extracted
              ELSE IF r.ret.t # "str"
              THEN pc' = "aborted" /\ extracted' = extracted
              ELSE /\ pc' = pc
                   /\ extracted' = IF Strip(r.ret.v) # <<>>
                                   THEN Append(extracted, Strip(r.ret.v))
                                   ELSE extracted
    /\ UNCHANGED <<file, reported>>
    /\ UNCHANGED <<filterVars, dedupVars, streamVars>>

\* end of input: write the output and print the two counts
Finish ==
    /\ pc = "reading"
    /\ pos > Len(file)
    /\ pc' = "done"
    /\ reported' = <<Len(extracted), error_count>>
    /\ UNCHANGED <<file, pos, buffer, in_object, object_count, entry_count,
                   error_count, result, returned, extracted>>
    /\ UNCHANGED <<filterVars, dedupVars, streamVars>>

Init == InitParser /\ FilterOff /\ DedupOff /\ StreamOff

Next == ReadLine \/ Finish

Spec == Init /\ [][Next]_vars

-----------------------------------------------------------------------------
(* Claims about JSONStreamParser and process_file, checked under Spec *)

\* the lines of the file as one text (a line break is white space)
RECURSIVE Joined(_)
Joined(f) == IF f = <<>> THEN <<>> ELSE Head(f) \o <<SP>> \o Joined(Tail(f))

\* the file is one well-formed JSON object with balanced braces whose first
\* key is "text" and whose text value is a string
WellFormedRecord(f) ==
    /\ f # <<>>
    /\ Loads(Joined(f)).ok
    /\ Loads(Joined(f)).first = StrV(<<"text">>)
    /\ Loads(Joined(f)).text.t = "str"
    /\ Count(Joined(f), LB) = Count(Joined(f), RB)

AllFed == pos = Len(file) + 1

\* C1: once every line of a well-formed single record (balanced braces, first
\* key text, any characters in the text value) has been fed to a fresh parser,
\* exactly one feed call has returned a record, entry_count is 1 and
\* error_count is 0.
C1Claim ==
    (AllFed /\ WellFormedRecord(file))
        => (returned = 1 /\ entry_count = 1 /\ error_count = 0)

\* C2: a feed call that receives a record-start line while the parser is
\* accumulating counts the discarded buffer as one attempted and one failed
\* record, and then goes on as a fresh parser would on the new start line.
C2Claim ==
    [][(/\ pc = "reading" /\ pos <= Len(file)
        /\ in_object /\ IsRecordStart(Strip(file[pos])))
       => LET fresh == Feed(NewParser, file[pos]).p
          IN  /\ entry_count' = entry_count + 1 + fresh.entry_count
              /\ error_count' = error_count + 1 + fresh.error_count
              /\ buffer' = fresh.buffer]_vars

\* C3: when the input ends while the parser is still accumulating, the failure
\* count reported for the run is one more than the failures counted by the
\* feed calls.
C3Claim ==
    (pc = "done" /\ in_object) => reported[2] = error_count + 1

\* a line that a fresh parser parses successfully to a string
ParsesFresh(l) ==
    /\ Feed(NewParser, l).ret.t = "str"
    /\ Feed(NewParser, l).p.error_count = 0

\* the lines of the input alphabet that a fresh parser parses successfully
FreshLines == {l \in Lines : ParsesFresh(l)}

\* the next feed call reaches _parse_buffer and the repaired buffer does not load
BalancedFailure ==
    /\ pc = "reading" /\ pos <= Len(file)
    /\ ReachesParse(Parser, file[pos])
    /\ ~Loads(Repair(Accumulate(Parser, Strip(file[pos])).buffer)).ok

C5Claim == pc # "aborted"

\* the buffer is a well-formed JSON object with a string text value but for
\* one comma just before its closing brace
OnlyTrailingComma(b) ==
    /\ TrailingComma(b) > 0
    /\ Loads(CollapseTrailingComma(b)).ok
    /\ Loads(CollapseTrailingComma(b)).text.t = "str"

\* C11: a feed call that completes a balanced record whose only malformation
\* is a comma just before the closing brace returns the text field of the
\* record and counts no failure.
C11Claim ==
    [][(/\ pc = "reading" /\ pos <= Len(file)
        /\ ReachesParse(Parser, file[pos])
        /\ OnlyTrailingComma(Accumulate(Parser, Strip(file[pos])).buffer))
       => /\ result' =
                Loads(CollapseTrailingComma(
                          Accumulate(Parser, Strip(file[pos])).buffer)).text
          /\ error_count' = error_count]_vars

\* C14: after every feed call entry_count is the number of feed calls that
\* returned a value plus error_count and error_count is at most entry_count;
\* no counter decreases, and the call adds one to entry_count exactly when the
\* brace count returns to zero, and nothing otherwise.
C14Claim ==
    [][(pc = "reading" /\ pos <= Len(file))
       => /\ entry_count' = returned' + error_count'
          /\ error_count' <= entry_count'
          /\ entry_count' >= entry_count
          /\ error_count' >= error_count
          /\ entry_count' = IF ReachesParse(Parser, file[pos])
                            THEN entry_count + 1
                            ELSE entry_count]_vars

-----------------------------------------------------------------------------
(* AcademicContentFilter: the text helpers                                 *)
(* A text is a sequence of the characters below.                           *)

Letters   == {"a", "x", "X"}
WordChars == Letters \cup {"1"}              \* \w
Specials  == {"[", "]", "@"}                 \* [^\w\s.,;:!?]
FChars    == WordChars \cup Specials \cup {SP}

Texts == SeqsUpTo(FChars, MaxTextLen)

\* str.lower()
LowerChar(c) == IF c = "X" THEN "x" ELSE c
Lower(t) == [k \in DOMAIN t |-> LowerChar(t[k])]

\* kw in t
Contains(t, kw) ==
    \E i \in 0..(Len(t) - Len(kw)) : SubSeq(t, i + 1, i + Len(kw)) = kw

\* word_tokenize: runs of word characters are one token each, every other
\* character that is not white space is a token of its own
RECURSIVE Tokenize(_, _, _)
Tokenize(t, i, cur) ==
    LET flush == IF cur = <<>> THEN <<>> ELSE <<cur>>
    IN  IF i > Len(t) THEN flush
        ELSE IF t[i] \in WordChars THEN Tokenize(t, i + 1, Append(cur, t[i]))
        ELSE IF t[i] = SP THEN flush \o Tokenize(t, i + 1, <<>>)
        ELSE flush \o <<(<<t[i]>>)>> \o Tokenize(t, i + 1, <<>>)

\* str.isalpha()
IsAlpha(w) == w # <<>> /\ \A k \in DOMAIN w : w[k] \in Letters

\* words = [w for w in word_tokenize(text.lower()) if w.isalpha()]
Words(t) == SelectSeq(Tokenize(Lower(t), 1, <<>>), IsAlpha)

\* stopwords.words('english'), as far as the letters can spell its entries
StopWords == {<<"a">>}

IsStopWord(w) == w \in StopWords

-----------------------------------------------------------------------------
(* AcademicContentFilter: configuration and heuristics *)

\* the patterns the configurations below use, searched with re.IGNORECASE
\*   "\[\d+\]"  (a default of reference_patterns)     "@\w+"
PatternSearch(pat, t) ==
    CASE pat = "\\[\\d+\\]" ->
            \E i, j \in DOMAIN t :
                /\ i + 1 < j /\ t[i] = "[" /\ t[j] = "]"
                /\ \A k \in (i + 1)..(j - 1) : t[k] = "1"
      [] pat = "@\\w+" ->
            \E i \in DOMAIN t : t[i] = "@" /\ At(t, i + 1) \in WordChars

\* re.compile('|'.join(patterns), re.IGNORECASE).search(t); the join of no
\* pattern is the empty pattern, which is found in every text
RegexSearch(patterns, t) ==
    patterns = {} \/ \E pat \in patterns : PatternSearch(pat, t)

\* max_stopword_ratio is the fraction num/den
Configs ==
    [min_paragraph_length : {0, 2},
     max_stopword_ratio   : {[num |-> 2, den |-> 5], [num |-> 3, den |-> 5]},
     ad_keywords          : {{<<"x", "x">>}, {<<"X", "x">>}},
     reference_patterns   : {{"\\[\\d+\\]"}},
     author_info_patterns : {{"@\\w+"}}]

\* the guard of _is_low_quality against very long texts
MaxWords == 10000

\* rule 1: any(kw in text.lower() for kw in ad_keywords)
AdKeyword(cfg, t) == \E kw \in cfg.ad_keywords : Contains(Lower(t), kw)

\* rule 2, left operand: self.ref_regex.search(text)
ReferencePattern(cfg, t) == RegexSearch(cfg.reference_patterns, t)

\* rule 2, right operand: self.author_regex.search(text)
AuthorInfo(cfg, t) == RegexSearch(cfg.author_info_patterns, t)

StopCount(ws) == Cardinality({k \in DOMAIN ws : IsStopWord(ws[k])})

\* _is_low_quality: "raise" stands for the ZeroDivisionError of the ratio of
\* an empty word list, which its except RuntimeError clause does not catch
IsLowQuality(cfg, t) ==
    LET words == Words(t)
        r     == cfg.max_stopword_ratio
    IN  IF Len(words) > MaxWords THEN "False"
        ELSE IF Len(words) < cfg.min_paragraph_length THEN "True"
        ELSE IF Len(words) = 0 THEN "raise"
        ELSE IF StopCount(words) * r.den > r.num * Len(words) THEN "True"
        ELSE "False"

\* re.search(r'(\w)\1{3,}', text)
RepeatedChar(t) ==
    \E i \in 1..(Len(t) - 3) :
        t[i] \in WordChars /\ \A k \in 1..3 : t[i + k] = t[i]

\* _is_nonsense
IsNonsense(t) ==
    \/ t = <<>>
    \/ 10 * Cardinality({k \in DOMAIN t : t[k] \in Specials}) > 3 * Len(t)
    \/ RepeatedChar(t)

\* _filter_text: the value returned, the heuristics evaluated in order, and
\* whether the except clause was taken
FilterText(cfg, t) ==
    IF AdKeyword(cfg, t)
    THEN [drop |-> TRUE, evaluated |-> <<"ad">>, raised |-> FALSE]
    ELSE IF ReferencePattern(cfg, t)
    THEN [drop |-> TRUE, evaluated |-> <<"ad", "ref">>, raised |-> FALSE]
    ELSE IF AuthorInfo(cfg, t)
    THEN [drop |-> TRUE, evaluated |-> <<"ad", "ref", "author">>, raised |-> FALSE]
    ELSE IF IsLowQuality(cfg, t) = "raise"
    THEN [drop |-> FALSE, evaluated |-> <<"ad", "ref", "author", "low">>,
          raised |-> TRUE]
    ELSE IF IsLowQuality(cfg, t) = "True"
    THEN [drop |-> TRUE, evaluated |-> <<"ad", "ref", "author", "low">>,
          raised |-> FALSE]
    ELSE [drop |-> IsNonsense(t),
          evaluated |-> <<"ad", "ref", "author", "low", "nonsense">>,
          raised |-> FALSE]

-----------------------------------------------------------------------------
(* One call of _filter_text on a text under a configuration *)

ParserOff ==
    /\ file = <<>>
    /\ pos = 1
    /\ pc = "off"
    /\ buffer = <<>>
    /\ in_object = FALSE
    /\ object_count = 0
    /\ entry_count = 0
    /\ error_count = 0
    /\ result = NoneV
    /\ returned = 0
    /\ extracted = <<>>
    /\ reported = <<>>

InitFilter ==
    /\ config \in Configs
    /\ ftext \in Texts
    /\ fpc = "call"
    /\ verdict = FALSE
    /\ evaluated = <<>>
    /\ raised = FALSE

FilterTextCall ==
    /\ fpc = "call"
    /\ LET r == FilterText(config, ftext)
       IN  /\ verdict' = r.drop
           /\ evaluated' = r.evaluated
           /\ raised' = r.raised
    /\ fpc' = "done"
    /\ UNCHANGED <<config, ftext>>
    /\ UNCHANGED <<parserVars, dedupVars, streamVars>>

FilterInit == InitFilter /\ ParserOff /\ DedupOff /\ StreamOff

SpecFilter == FilterInit /\ [][FilterTextCall]_vars

-----------------------------------------------------------------------------
(* Claims about _filter_text, checked under SpecFilter *)

HeuristicOrder == <<"ad", "ref", "author", "low", "nonsense">>

\* the heuristic named h matches the text (returns a true value)
Matches(h, cfg, t) ==
    CASE h = "ad"       -> AdKeyword(cfg, t)
      [] h = "ref"      -> ReferencePattern(cfg, t)
      [] h = "author"   -> AuthorInfo(cfg, t)
      [] h = "low"      -> IsLowQuality(cfg, t) = "True"
      [] h = "nonsense" -> IsNonsense(t)

\* C8: _filter_text evaluates the heuristics in the order ad keyword,
\* reference pattern, author info, low quality, nonsense and stops at the
\* first that matches; the text is dropped iff at least one of the five
\* heuristics matches it.
C8Claim ==
    fpc = "done" =>
        /\ evaluated = SubSeq(HeuristicOrder, 1, Len(evaluated))
        /\ \A k \in 1..(Len(evaluated) - 1) :
              ~Matches(evaluated[k], config, ftext)
        /\ verdict
              <=> \E k \in DOMAIN HeuristicOrder :
                      Matches(HeuristicOrder[k], config, ftext)

\* C9: under every configuration, a text with no alphabetic token is dropped.
C9Claim ==
    (fpc = "done" /\ Words(ftext) = <<>>) => verdict

\* C10: a text that contains a configured ad keyword, compared without regard
\* to letter case in the text or in the keyword, is dropped.
C10Claim ==
    (fpc = "done" /\ \E kw \in config.ad_keywords :
                        Contains(Lower(ftext), Lower(kw)))
        => verdict

-----------------------------------------------------------------------------
(* deduplication.py: MinHash signatures and the LSH index (datasketch)     *)
(* A text is the sequence of tokens text.split() yields.                   *)

Tokens == {"a", "b"}

DedupTexts == SeqsUpTo(Tokens, MaxTokens)

DedupInputs == SeqsUpTo(DedupTexts, MaxTexts)

\* the 32-bit hash of a token
TokenHash(tok) == CASE tok = "a" -> 1 [] tok = "b" -> 3

\* the i-th permutation (a_i * h + b_i) mod p of the hash values
Permute(i, h) == ((1 + (i % 6)) * h + (i % 7)) % 7

\* the value of a signature position no token has lowered
MaxHashValue == 7

Min(S) == CHOOSE m \in S : \A n \in S : m <= n

\* get_minhash: per permutation, the least permuted hash over the tokens
GetMinhash(text) ==
    [i \in 1..NumPerm |->
        Min({MaxHashValue} \cup {Permute(i, TokenHash(text[k])) : k \in DOMAIN text})]

\* MinHashLSH splits a signature into bands of Rows values each
Bands == NumPerm \div Rows

BandValue(mh, b) == SubSeq(mh, (b - 1) * Rows + 1, b * Rows)

\* MinHashLSH(...) with nothing inserted
NewHashtables == [b \in 1..Bands |-> {}]

\* lsh.query(mh): the keys stored under the value of mh in some band
Query(tables, mh) ==
    {e[2] : e \in UNION {{x \in tables[b] : x[1] = BandValue(mh, b)} : b \in 1..Bands}}

\* lsh.insert(key, mh): the key is stored under the value of mh in every band
Insert(tables, key, mh) ==
    [b \in 1..Bands |-> tables[b] \cup {<<BandValue(mh, b), key>>}]

-----------------------------------------------------------------------------
(* deduplicate_texts *)

InitDedup ==
    /\ texts \in DedupInputs
    /\ di = 0
    /\ dpc = "loop"
    /\ hashtables = NewHashtables
    /\ keys = {}
    /\ unique = <<>>

\* the loop body with the query answered from the last inserted key only
DedupStepLastKey ==
    /\ dpc = "loop"
    /\ di < Len(texts)
    /\ LET text == texts[di + 1]
           mh   == GetMinhash(text)
           last == {k \in keys : \A j \in keys : j <= k}
       IN  IF Query(hashtables, mh) \cap last = {}
           THEN /\ hashtables' = Insert(hashtables, di, mh)
                /\ keys' = keys \cup {di}
                /\ unique' = Append(unique, text)
           ELSE UNCHANGED <<hashtables, keys, unique>>
    /\ di' = di + 1
    /\ UNCHANGED <<texts, dpc>>
    /\ UNCHANGED <<parserVars, filterVars, streamVars>>

\* the loop body with the new text put in front of the list
DedupStepPrepend ==
    /\ dpc = "loop"
    /\ di < Len(texts)
    /\ LET text == texts[di + 1]
           mh   == GetMinhash(text)
       IN  IF Query(hashtables, mh) = {}
           THEN /\ hashtables' = Insert(hashtables, di, mh)
                /\ keys' = keys \cup {di}
                /\ unique' = <<text>> \o unique
           ELSE UNCHANGED <<hashtables, keys, unique>>
    /\ di' = di + 1
    /\ UNCHANGED <<texts, dpc>>
    /\ UNCHANGED <<parserVars, filterVars, streamVars>>

\* the loop body with the signature left out of the band tables
DedupStepNoInsert ==
    /\ dpc = "loop"
    /\ di < Len(texts)
    /\ LET text == texts[di + 1]
           mh   == GetMinhash(text)
       IN  IF Query(hashtables, mh) = {}
           THEN /\ hashtables' = hashtables
                /\ keys' = keys \cup {di}
                /\ unique' = Append(unique, text)
           ELSE UNCHANGED <<hashtables, keys, unique>>
    /\ di' = di + 1
    /\ UNCHANGED <<texts, dpc>>
    /\ UNCHANGED <<parserVars, filterVars, streamVars>>

\* one iteration of the loop over enumerate(texts)
DedupStep ==
    /\ dpc = "loop"
    /\ di < Len(texts)
    /\ LET text == texts[di + 1]
           mh   == GetMinhash(text)
       IN  IF Query(hashtables, mh) = {}
           THEN /\ hashtables' = Insert(hashtables, di, mh)
                /\ keys' = keys \cup {di}
                /\ unique' = Append(unique, text)
           ELSE UNCHANGED <<hashtables, keys, unique>>
    /\ di' = di + 1
    /\ UNCHANGED <<texts, dpc>>
    /\ UNCHANGED <<parserVars, filterVars, streamVars>>

\* return unique
DedupReturn ==
    /\ dpc = "loop"
    /\ di = Len(texts)
    /\ dpc' = "done"
    /\ UNCHANGED <<texts, di, hashtables, keys, unique>>
    /\ UNCHANGED <<parserVars, filterVars, streamVars>>

\* deduplicate_texts(xs) as a function: the loop from position i on, with the
\* band tables and the output built so far
RECURSIVE DedupLoop(_, _, _, _)
DedupLoop(xs, i, tables, out) ==
    IF i >= Len(xs) THEN out
    ELSE LET mh == GetMinhash(xs[i + 1])
         IN  IF Query(tables, mh) = {}
             THEN DedupLoop(xs, i + 1, Insert(tables, i, mh), Append(out, xs[i + 1]))
             ELSE DedupLoop(xs, i + 1, tables, out)

\* a call with a new MinHashLSH index
DeduplicateTexts(xs) == DedupLoop(xs, 0, NewHashtables, <<>>)

NextDedup == DedupStep \/ DedupReturn

DedupInit == InitDedup /\ ParserOff /\ FilterOff /\ StreamOff

SpecDedup == DedupInit /\ [][NextDedup]_vars

-----------------------------------------------------------------------------
(* Claims about deduplicate_texts, checked under SpecDedup *)

\* the index reports the two texts as near-duplicates: their signatures agree
\* on some band
Collide(t, u) ==
    \E b \in 1..Bands : BandValue(GetMinhash(t), b) = BandValue(GetMinhash(u), b)

\* the texts at the positions of K (0-based), in input order
RECURSIVE Pick(_, _, _)
Pick(ts, K, i) ==
    IF i >= Len(ts) THEN <<>>
    ELSE (IF i \in K THEN <<ts[i + 1]>> ELSE <<>>) \o Pick(ts, K, i + 1)

\* C6: the output is the subsequence of the input, in input order, made of the
\* retained positions; a text is dropped exactly when the index reports it a
\* near-duplicate of a text retained before it, so of the texts reported
\* near-duplicates the first processed is the one retained; [A, B, A'] with A'
\* a near-duplicate of A and B not one gives [A, B].
C6Claim ==
    /\ unique = Pick(SubSeq(texts, 1, di), keys, 0)
    /\ \A j \in 0..(di - 1) :
          j \in keys <=>
              ~\E i \in keys : i < j /\ Collide(texts[i + 1], texts[j + 1])
    /\ (dpc = "done" /\ Len(texts) = 3
        /\ Collide(texts[1], texts[3]) /\ ~Collide(texts[1], texts[2]))
          => unique = <<texts[1], texts[2]>>

\* [A, B, A'] = ["a", "b", "a b"]: "a b" shares a band with "a", "b" does not
\* share one with "a"
C6Witness ==
    /\ dpc = "done"
    /\ texts = <<(<<"a">>), (<<"b">>), (<<"a", "b">>)>>
    /\ unique = <<(<<"a">>), (<<"b">>)>>

\* C7: after every step, a query with the text of any inserted key reports a
\* duplicate, the output holds no text twice, a key is in the index exactly
\* when its text was appended to the output, and the step removed nothing from
\* the index.
C7Claim ==
    [][/\ \A k \in keys' : Query(hashtables', GetMinhash(texts[k + 1])) # {}
       /\ \A m, n \in DOMAIN unique' : m # n => unique'[m] # unique'[n]
       /\ keys \subseteq keys'
       /\ \A b \in 1..Bands : hashtables[b] \subseteq hashtables'[b]
       /\ (keys' # keys) <=> (unique' # unique)
       /\ (keys' # keys) <=> (\E b \in 1..Bands : hashtables'[b] # hashtables[b])
       /\ Cardinality(keys') = Len(unique')]_vars

\* the same text came twice and the second one was dropped
C7Witness ==
    /\ dpc = "done"
    /\ Len(texts) = 3 /\ texts[1] = texts[3] /\ texts[1] # texts[2]
    /\ 0 \in keys /\ 2 \notin keys
    /\ Len(unique) = 2

\* C15: deduplicate_texts run on its own output with a new index returns that
\* output unchanged, and no retained text collides in the index with a text
\* retained before it.
C15Claim ==
    dpc = "done" =>
        /\ unique = DeduplicateTexts(texts)
        /\ DeduplicateTexts(unique) = unique
        /\ \A m, n \in DOMAIN unique :
              m < n => ~Collide(unique[m], unique[n])

\* a text was dropped, two were retained, and the text dropped collides with
\* both of them
C15Witness ==
    /\ dpc = "done"
    /\ Len(texts) = 3 /\ Len(unique) = 2
    /\ unique = <<texts[1], texts[3]>>
    /\ Collide(texts[2], texts[1]) /\ Collide(texts[2], texts[3])
    /\ DeduplicateTexts(unique) = unique

-----------------------------------------------------------------------------
(* AcademicContentFilter.filter_content and the validator's scan *)

\* JSON values: a string, a list of values, a dict as its (key, value) pairs in
\* insertion order
DStr(s)   == [t |-> "str", v |-> s]
DList(xs) == [t |-> "list", v |-> xs]
DDict(ps) == [t |-> "dict", v |-> ps]

\* the configuration of the filter that processes the stream
StreamConfig ==
    [min_paragraph_length |-> 2,
     max_stopword_ratio |-> [num |-> 3, den |-> 5],
     ad_keywords |-> {<<"x", "x">>},
     reference_patterns |-> {"\\[\\d+\\]"},
     author_info_patterns |-> {"@\\w+"},
     blacklist_keys |-> {<<"x">>}]

\* key.lower() in self.config.get('blacklist_keys', [])
IsKeyBlacklisted(cfg, key) == Lower(key) \in cfg.blacklist_keys

RECURSIVE FilterContent(_, _)
RECURSIVE FilterPairs(_, _)
RECURSIVE FilterItems(_, _)

\* {k: filter_content(v) for k, v in data.items() if not _is_key_blacklisted(k)}
FilterPairs(cfg, ps) ==
    IF ps = <<>> THEN <<>>
    ELSE (IF IsKeyBlacklisted(cfg, Head(ps)[1]) THEN <<>>
          ELSE <<(<<Head(ps)[1], FilterContent(cfg, Head(ps)[2])>>)>>)
         \o FilterPairs(cfg, Tail(ps))

\* [filter_content(item) for item in data
\*      if not (isinstance(item, str) and _filter_text(item))]
FilterItems(cfg, xs) ==
    IF xs = <<>> THEN <<>>
    ELSE (IF Head(xs).t = "str" /\ FilterText(cfg, Head(xs).v).drop THEN <<>>
          ELSE <<FilterContent(cfg, Head(xs))>>)
         \o FilterItems(cfg, Tail(xs))

FilterContent(cfg, data) ==
    IF data.t = "dict" THEN DDict(FilterPairs(cfg, data.v))
    ELSE IF data.t = "list" THEN DList(FilterItems(cfg, data.v))
    ELSE data

\* re.search(pattern, data, re.IGNORECASE) for an ad keyword or a reference
\* pattern of the rules
BlacklistHit(cfg, text) ==
    \/ \E kw \in cfg.ad_keywords : Contains(Lower(text), Lower(kw))
    \/ \E pat \in cfg.reference_patterns : PatternSearch(pat, text)

\* _scan_for_patterns: the strings of the structure the validator reports as
\* residual blacklisted content
RECURSIVE ScanForPatterns(_, _)
ScanForPatterns(cfg, data) ==
    IF data.t = "dict"
    THEN UNION {ScanForPatterns(cfg, data.v[k][2]) : k \in DOMAIN data.v}
    ELSE IF data.t = "list"
    THEN UNION {ScanForPatterns(cfg, data.v[k]) : k \in DOMAIN data.v}
    ELSE IF BlacklistHit(cfg, data.v) THEN {data.v} ELSE {}

\* texts: one every heuristic passes, one with the ad keyword, one with a
\* reference mark
TextGood == <<"x", SP, "x">>
TextAd   == <<"X", "x">>
TextRef  == <<"[", "1", "]">>

\* {"a": ["x x", "Xx"]}
RecordList == DDict(<<(<<(<<"a">>), DList(<<DStr(TextGood), DStr(TextAd)>>)>>)>>)
\* {"a": "Xx"}
RecordValue == DDict(<<(<<(<<"a">>), DStr(TextAd)>>)>>)
\* ["[1]", {"X": "x x", "a": [["Xx"]]}]
RecordNested ==
    DList(<<DStr(TextRef),
            DDict(<<(<<(<<"X">>), DStr(TextGood)>>),
                    (<<(<<"a">>), DList(<<DList(<<DStr(TextAd)>>)>>)>>)>>)>>)
\* ["x x"]
RecordClean == DList(<<DStr(TextGood)>>)

\* a line json.loads raises JSONDecodeError on
BadLine == [t |-> "bad", v |-> <<>>]

StreamLines == {RecordList, RecordValue, RecordNested, RecordClean, BadLine}

-----------------------------------------------------------------------------
(* stream_process, _process_batch and parallel_filter *)

InitStream ==
    /\ lines \in SeqsUpTo(StreamLines, MaxStreamLines)
    /\ batch_size \in 1..MaxBatchSize
    /\ sline = 0
    /\ sbuffer = <<>>
    /\ futures = <<>>
    /\ order = <<>>
    /\ fout = <<>>
    /\ spc = "read"

NoResult == [t |-> "none", v |-> <<>>]

\* executor.map(self.filter_content, data_list): one task per record, queued
\* in the order of the list
Submit(data_list) ==
    [k \in DOMAIN data_list |-> [state |-> "queued", result |-> NoResult]]

\* one iteration of the for-loop over the lines of the input; a full buffer
\* goes to _process_batch
StreamReadLine ==
    /\ spc = "read"
    /\ sline < Len(lines)
    /\ sline' = sline + 1
    /\ IF lines[sline + 1] = BadLine
       THEN UNCHANGED <<sbuffer, futures, spc>>
       ELSE /\ sbuffer' = Append(sbuffer, lines[sline + 1])
            /\ IF Len(sbuffer') >= batch_size
               THEN futures' = Submit(sbuffer') /\ spc' = "batch"
               ELSE UNCHANGED <<futures, spc>>
    /\ UNCHANGED <<lines, batch_size, order, fout>>
    /\ UNCHANGED <<parserVars, filterVars, dedupVars>>

\* after the loop: the records left in the buffer go to _process_batch
StreamEnd ==
    /\ spc = "read"
    /\ sline = Len(lines)
    /\ IF sbuffer # <<>>
       THEN futures' = Submit(sbuffer) /\ spc' = "last"
       ELSE UNCHANGED futures /\ spc' = "done"
    /\ UNCHANGED <<lines, batch_size, sline, sbuffer, order, fout>>
    /\ UNCHANGED <<parserVars, filterVars, dedupVars>>

\* a free worker thread takes the oldest queued task
WorkerStart ==
    /\ spc \in {"batch", "last"}
    /\ Cardinality({k \in DOMAIN futures : futures[k].state = "running"})
          < ParallelWorkers
    /\ \E i \in DOMAIN futures :
          /\ futures[i].state = "queued"
          /\ \A j \in 1..(i - 1) : futures[j].state # "queued"
          /\ futures' = [futures EXCEPT ![i].state = "running"]
    /\ UNCHANGED <<lines, batch_size, sline, sbuffer, order, fout, spc>>
    /\ UNCHANGED <<parserVars, filterVars, dedupVars>>

\* a worker thread finishes filter_content on its record
WorkerFinish ==
    /\ spc \in {"batch", "last"}
    /\ \E i \in DOMAIN futures :
          /\ futures[i].state = "running"
          /\ futures' = [futures EXCEPT
                            ![i] = [state |-> "done",
                                    result |-> FilterContent(StreamConfig, sbuffer[i])]]
          /\ order' = Append(order, Len(fout) + i)
    /\ UNCHANGED <<lines, batch_size, sline, sbuffer, fout, spc>>
    /\ UNCHANGED <<parserVars, filterVars, dedupVars>>

\* the batch written in the order the workers finished
WriteBatchAsCompleted ==
    /\ spc \in {"batch", "last"}
    /\ \A k \in DOMAIN futures : futures[k].state = "done"
    /\ fout' = fout \o [k \in DOMAIN futures |->
                           futures[order[Len(fout) + k] - Len(fout)].result]
    /\ sbuffer' = <<>>
    /\ futures' = <<>>
    /\ spc' = IF spc = "last" THEN "done" ELSE "read"
    /\ UNCHANGED <<lines, batch_size, sline, order>>
    /\ UNCHANGED <<parserVars, filterVars, dedupVars>>

\* list(executor.map(...)) is complete: parallel_filter returns the results in
\* the order of the tasks and _process_batch writes them one per line
WriteBatch ==
    /\ spc \in {"batch", "last"}
    /\ \A k \in DOMAIN futures : futures[k].state = "done"
    /\ fout' = fout \o [k \in DOMAIN futures |-> futures[k].result]
    /\ sbuffer' = <<>>
    /\ futures' = <<>>
    /\ spc' = IF spc = "last" THEN "done" ELSE "read"
    /\ UNCHANGED <<lines, batch_size, sline, order>>
    /\ UNCHANGED <<parserVars, filterVars, dedupVars>>

NextStream ==
    StreamReadLine \/ StreamEnd \/ WorkerStart \/ WorkerFinish \/ WriteBatch

StreamInit == InitStream /\ ParserOff /\ FilterOff /\ DedupOff

SpecStream == StreamInit /\ [][NextStream]_vars

-----------------------------------------------------------------------------
(* Claims about filter_content and stream_process, checked under SpecStream *)

\* C12: no string of a record that filter_content has processed, at any depth,
\* list element or dict value, contains an ad keyword or matches a reference
\* pattern: the validator's scan of the record reports nothing.
C12Claim ==
    \A k \in DOMAIN fout : ScanForPatterns(StreamConfig, fout[k]) = {}

IsParsed(l) == l # BadLine

\* the lines json.loads accepts, in the order of the file
Parsed == SelectSeq(lines, IsParsed)

\* the filtered record of every parsed line, in the order of the file
Filtered == [k \in DOMAIN Parsed |-> FilterContent(StreamConfig, Parsed[k])]

\* C13: once every task of a batch has finished, in whatever order, the
\* results are one per record of the batch in the order of the batch; the
\* output file always holds the filtered records of the first parsed lines in
\* the order of the input, and all of them at the end.
C13Claim ==
    /\ (spc \in {"batch", "last"}
        /\ \A k \in DOMAIN futures : futures[k].state = "done")
          => /\ Len(futures) = Len(sbuffer)
             /\ \A k \in DOMAIN futures :
                   futures[k].result = FilterContent(StreamConfig, sbuffer[k])
    /\ Len(fout) <= Len(Filtered)
    /\ \A k \in DOMAIN fout : fout[k] = Filtered[k]
    /\ spc = "done" => Len(fout) = Len(Filtered)

\* three records in two batches; the second task of the first batch finished
\* before the first one
C13Witness ==
    /\ spc = "done"
    /\ batch_size = 2
    /\ Len(lines) = 3 /\ Len(Parsed) = 3
    /\ lines[1] # lines[2]
    /\ order = <<2, 1, 3>>
    /\ Len(fout) = 3

=============================================================================
